---- MODULE Spec2Model ----
(***************************************************************************)
(* Model of src/app.go: the LINE bot worker that turns one queued event    *)
(* into one reply.  handleTask is modelled step by step (one action per    *)
(* external call or pipeline stage), convertToGray pixel by pixel.         *)
(*                                                                         *)
(* Strings of the source that are not ASCII are transliterated:            *)
(*   FailureText     stands for the text at app.go:145                     *)
(*   UnsupportedText stands for the text at app.go:148                     *)
(***************************************************************************)
EXTENDS Integers, Sequences, FiniteSets, TLC

VARIABLES
    pc,               \* position of handleTask
    data,             \* r.FormValue("data")
    e,                \* the decoded linebot.Event
    responseMessage,  \* var responseMessage linebot.Message
    content,          \* *linebot.MessageContentResponse
    contentOpen,      \* content.Content has been obtained and not yet closed
    img,              \* img (decoded, then grayscale)
    thumbnail,        \* thumbnail
    writeError1,      \* writeError1
    writeError2,      \* writeError2
    storage,          \* objects of the bucket
    streams,          \* storage writers created so far, with their closed flag
    replies,          \* messages handed to bot.ReplyMessage
    logs,             \* log.Errorf calls
    calls,            \* history of the stages entered, in order
    outcome,          \* how the unit of work ended
    heap,             \* pixel grids by address (convertToGray)
    gpc,              \* position of the convertToGray run
    gsrc,             \* address of the grid passed to convertToGray
    gdest,            \* address of dest
    gx, gy,           \* loop variables x, y
    gin,              \* address and value of the first input grid
    gout              \* addresses returned by the calls made so far

hvars == <<pc, data, e, responseMessage, content, contentOpen, img, thumbnail,
           writeError1, writeError2, storage, streams, replies, logs, calls,
           outcome>>
gvars == <<heap, gpc, gsrc, gdest, gx, gy, gin, gout>>
vars == <<pc, data, e, responseMessage, content, contentOpen, img, thumbnail,
          writeError1, writeError2, storage, streams, replies, logs, calls,
          outcome, heap, gpc, gsrc, gdest, gx, gy, gin, gout>>

-----------------------------------------------------------------------------
(* Bounds of the model *)

MaxMessageId == 2   \* message IDs are "1" .. "MaxMessageId"
SmallDim == 3       \* image sides 1 .. SmallDim
Edge == 3           \* image sides within Edge of 300 and of 600
MaxSide == 640      \* resize.Thumbnail is also evaluated on every w x h up to MaxSide
MaxGrid == 2        \* pixel grids of convertToGray are at most MaxGrid x MaxGrid

(* Program constants *)

bucketURLBase == "https://storage.googleapis.com/"
bucketName == "bucket"
MaxThumb == 300
JpegMaxDim == 65536
FailureText == "shippai shimashita..."
UnsupportedText == "mitaiou desu..."

NilError == "nil"

-----------------------------------------------------------------------------
(* Inputs *)

MessageIDs == {ToString(k) : k \in 1..MaxMessageId}

Texts == {"hello", "", FailureText}

NoMessage == [type |-> "none", id |-> "", text |-> ""]

Messages ==
    {[type |-> "text", id |-> i, text |-> t] : i \in MessageIDs, t \in Texts}
    \cup {[type |-> "image", id |-> i, text |-> ""] : i \in MessageIDs}
    \cup {[type |-> "location", id |-> i, text |-> ""] : i \in MessageIDs}
    \cup {NoMessage}

Events == {[replyToken |-> "token", message |-> m] : m \in Messages}

NoEvent == [replyToken |-> "", message |-> NoMessage]

Dims ==
    (1..SmallDim)
    \cup ((MaxThumb - Edge)..(MaxThumb + Edge))
    \cup ((2 * MaxThumb - Edge)..(2 * MaxThumb + Edge))
    \cup {JpegMaxDim - 1, JpegMaxDim}

ContentTypes == {"image/jpeg", "image/png", "image/gif"}

NilImage == [w |-> 0, h |-> 0, model |-> "nil"]

NoContent == [ContentType |-> "", fmt |-> "", w |-> 0, h |-> 0]

\* What the platform may return for GetMessageContent: a declared content
\* type and a byte stream that really is a JPEG (sides below 2^16), a PNG,
\* or neither.
Contents ==
    {[ContentType |-> t, fmt |-> "jpeg", w |-> w, h |-> h] :
        t \in ContentTypes, w \in {d \in Dims : d < JpegMaxDim},
        h \in {d \in Dims : d < JpegMaxDim}}
    \cup {[ContentType |-> t, fmt |-> "png", w |-> w, h |-> h] :
        t \in ContentTypes, w \in Dims, h \in Dims}
    \cup {[ContentType |-> t, fmt |-> "garbage", w |-> 0, h |-> 0] :
        t \in ContentTypes}

StorageFaults == {"none", "client", "write", "close"}

-----------------------------------------------------------------------------
(* handleCallback: the payload of the task enqueued for event ev.  The      *)
(* encodings are wrappers that the decoders of handleTask take off again;   *)
(* json.Marshal / json.Unmarshal of a linebot.Event are taken to round-trip *)
(* the message kind, ID and text.                                           *)

EncodeTask(ev) ==
    [wire |-> "base64", body |-> [wire |-> "json", event |-> ev]]

\* Everything that can arrive at /task as the form value "data"
Payloads ==
    {EncodeTask(ev) : ev \in Events}
    \cup {[wire |-> "empty", body |-> [wire |-> "none", event |-> NoEvent]],
          [wire |-> "garbage", body |-> [wire |-> "none", event |-> NoEvent]],
          [wire |-> "base64", body |-> [wire |-> "garbage", event |-> NoEvent]]}

-----------------------------------------------------------------------------
(* Pure functions of the image pipeline *)

Max(a, b) == IF a >= b THEN a ELSE b

\* jpeg.Decode / png.Decode on the byte stream of c
jpegDecode(c) ==
    IF c.fmt = "jpeg"
    THEN [img |-> [w |-> c.w, h |-> c.h, model |-> "YCbCr"], err |-> NilError]
    ELSE [img |-> NilImage, err |-> "jpeg: invalid format"]

pngDecode(c) ==
    IF c.fmt = "png"
    THEN [img |-> [w |-> c.w, h |-> c.h, model |-> "NRGBA"], err |-> NilError]
    ELSE [img |-> NilImage, err |-> "png: invalid format"]

decodeImageDropsError(c) ==
    IF c.ContentType = "image/jpeg" THEN [jpegDecode(c) EXCEPT !.err = NilError]
    ELSE IF c.ContentType = "image/png"
    THEN [pngDecode(c) EXCEPT !.err = NilError]
    ELSE [img |-> NilImage, err |-> NilError]

\* decodeImage: img and err keep their zero values for any other content type
decodeImage(c) ==
    IF c.ContentType = "image/jpeg" THEN jpegDecode(c)
    ELSE IF c.ContentType = "image/png" THEN pngDecode(c)
    ELSE [img |-> NilImage, err |-> NilError]

\* convertToGray on the bounds and colour model of an image (the pixels are
\* modelled by the grid operators further down)
convertToGray(im) == [w |-> im.w, h |-> im.h, model |-> "Gray16"]

ThumbnailNoSecondFit(maxWidth, maxHeight, im) ==
    IF maxWidth >= im.w /\ maxHeight >= im.h THEN im
    ELSE IF im.w > maxWidth
         THEN [im EXCEPT !.w = maxWidth,
                         !.h = Max(1, (im.h * maxWidth) \div im.w)]
         ELSE [im EXCEPT !.h = maxHeight]

\* resize.Thumbnail(maxWidth, maxHeight, img, resize.Lanczos3): the image
\* itself when it fits, else the image resampled to the sides computed here
Thumbnail(maxWidth, maxHeight, im) ==
    IF maxWidth >= im.w /\ maxHeight >= im.h THEN im
    ELSE LET h1 == IF im.w > maxWidth
                   THEN Max(1, (im.h * maxWidth) \div im.w) ELSE im.h
             w1 == IF im.w > maxWidth THEN maxWidth ELSE im.w
             w2 == IF h1 > maxHeight
                   THEN Max(1, (w1 * maxHeight) \div h1) ELSE w1
             h2 == IF h1 > maxHeight THEN maxHeight ELSE h1
         IN  [im EXCEPT !.w = w2, !.h = h2]

origPath(id) == "images/" \o id \o ".jpg"

thumbnailPath(id) == "thumbnails/" \o id \o ".jpg"

publicURLNoSlash(path) == bucketURLBase \o bucketName \o path

publicURL(path) == bucketURLBase \o bucketName \o "/" \o path

\* jpeg.Encode refuses an image with a side of 2^16 or more
JpegEncodable(im) == im.w < JpegMaxDim /\ im.h < JpegMaxDim

StorageObject(im, path) ==
    [path |-> path, w |-> im.w, h |-> im.h, model |-> im.model,
     ContentType |-> "image/jpeg", acl |-> "allUsers:READER"]

\* writeImage under the storage fault injected into this call: the error it
\* returns, the writer it created (closed by the deferred Close on every
\* return after NewWriter) and the object the bucket holds afterwards.
\* The object exists only when Write and Close both succeeded; the error of
\* the deferred Close is discarded.
writeImage(im, path, fault) ==
    IF fault = "client"
    THEN [err |-> "storage.NewClient", streams |-> <<>>, objects |-> {}]
    ELSE IF ~JpegEncodable(im)
    THEN [err |-> "jpeg.Encode", streams |-> <<>>, objects |-> {}]
    ELSE [err |-> IF fault = "write" THEN "writer.Write" ELSE NilError,
          streams |-> <<[path |-> path, closed |-> TRUE]>>,
          objects |-> IF fault = "none" THEN {StorageObject(im, path)} ELSE {}]

TextMessage(t) == [type |-> "text", text |-> t, orig |-> "", preview |-> ""]

ImageMessage(o, p) == [type |-> "image", text |-> "", orig |-> o, preview |-> p]

NoResponse == [type |-> "none", text |-> "", orig |-> "", preview |-> ""]

\* the reply chosen after the two uploads
uploadReply(err1, err2, id) ==
    IF err1 = NilError /\ err2 = NilError
    THEN ImageMessage(publicURL(origPath(id)), publicURL(thumbnailPath(id)))
    ELSE TextMessage(FailureText)

-----------------------------------------------------------------------------
(* handleTask *)

GrayIdle ==
    /\ heap = <<>>
    /\ gpc = "off"
    /\ gsrc = 0
    /\ gdest = 0
    /\ gx = 0
    /\ gy = 0
    /\ gin = <<>>
    /\ gout = <<>>

Init ==
    /\ pc = "parse"
    /\ data \in Payloads
    /\ e = NoEvent
    /\ responseMessage = NoResponse
    /\ content = NoContent
    /\ contentOpen = FALSE
    /\ img = NilImage
    /\ thumbnail = NilImage
    /\ writeError1 = NilError
    /\ writeError2 = NilError
    /\ storage = {}
    /\ streams = <<>>
    /\ replies = <<>>
    /\ logs = <<>>
    /\ calls = <<>>
    /\ outcome = "running"
    /\ GrayIdle

AbortFallsThrough(msg) ==
    /\ pc' = "reply"
    /\ outcome' = outcome
    /\ logs' = Append(logs, msg)
    /\ contentOpen' = contentOpen

\* a logged early return; the deferred content.Content.Close() runs
Abort(msg) ==
    /\ pc' = "done"
    /\ outcome' = "abort"
    /\ logs' = Append(logs, msg)
    /\ contentOpen' = FALSE

\* lines 76-94: the form value, base64 and JSON decoding
ParseTask ==
    /\ pc = "parse"
    /\ IF data.wire = "empty"
       THEN Abort("No data") /\ UNCHANGED e
       ELSE IF data.wire # "base64"
       THEN Abort("base64 DecodeString") /\ UNCHANGED e
       ELSE IF data.body.wire # "json"
       THEN Abort("json.Unmarshal") /\ UNCHANGED e
       ELSE /\ e' = data.body.event
            /\ pc' = "newbot"
            /\ UNCHANGED <<outcome, logs, contentOpen>>
    /\ UNCHANGED <<data, responseMessage, content, img, thumbnail, writeError1,
                   writeError2, storage, streams, replies, calls>>
    /\ UNCHANGED gvars

\* lines 96-100: newLINEBot
NewBot ==
    /\ pc = "newbot"
    /\ \E ok \in BOOLEAN :
         IF ok
         THEN pc' = "switch" /\ UNCHANGED <<outcome, logs, contentOpen>>
         ELSE Abort("newLINEBot")
    /\ UNCHANGED <<data, e, responseMessage, content, img, thumbnail,
                   writeError1, writeError2, storage, streams, replies, calls>>
    /\ UNCHANGED gvars

simpleReplyUnsupported(message) == TextMessage(UnsupportedText)

\* lines 105-107 and 147-148: the reply to a message that is not an image
simpleReply(message) ==
    IF message.type = "text" THEN TextMessage(message.text)
    ELSE TextMessage(UnsupportedText)

\* lines 105-108, 147-149: the type switch
Switch ==
    /\ pc = "switch"
    /\ IF e.message.type = "image"
       THEN pc' = "fetch" /\ UNCHANGED responseMessage
       ELSE pc' = "reply" /\ responseMessage' = simpleReply(e.message)
    /\ UNCHANGED <<data, e, content, contentOpen, img, thumbnail, writeError1,
                   writeError2, storage, streams, replies, logs, calls, outcome>>
    /\ UNCHANGED gvars

\* lines 110-115: bot.GetMessageContent(message.ID).Do()
Fetch ==
    /\ pc = "fetch"
    /\ calls' = Append(calls, "fetch")
    /\ \/ /\ Abort("Load error: fetch")
          /\ UNCHANGED content
       \/ /\ \E c \in Contents : content' = c
          /\ contentOpen' = TRUE
          /\ pc' = "decode"
          /\ UNCHANGED <<outcome, logs>>
    /\ UNCHANGED <<data, e, responseMessage, img, thumbnail, writeError1,
                   writeError2, storage, streams, replies>>
    /\ UNCHANGED gvars

\* lines 117-122: decodeImage and its error check
Decode ==
    /\ pc = "decode"
    /\ calls' = Append(calls, "decode")
    /\ LET r == decodeImage(content)
       IN  IF r.err # NilError
           THEN Abort("Load error: decode") /\ UNCHANGED img
           ELSE /\ img' = r.img
                /\ pc' = "gray"
                /\ UNCHANGED <<outcome, logs, contentOpen>>
    /\ UNCHANGED <<data, e, responseMessage, content, thumbnail, writeError1,
                   writeError2, storage, streams, replies>>
    /\ UNCHANGED gvars

\* line 125: convertToGray(img); img.Bounds() on the nil image panics, the
\* deferred Close runs and nothing of the handler after this line does
Gray ==
    /\ pc = "gray"
    /\ calls' = Append(calls, "gray")
    /\ IF img = NilImage
       THEN /\ pc' = "done"
            /\ outcome' = "panic"
            /\ contentOpen' = FALSE
            /\ UNCHANGED img
       ELSE /\ img' = convertToGray(img)
            /\ pc' = "thumb"
            /\ UNCHANGED <<outcome, contentOpen>>
    /\ UNCHANGED <<data, e, responseMessage, content, thumbnail, writeError1,
                   writeError2, storage, streams, replies, logs>>
    /\ UNCHANGED gvars

\* line 128
Thumb ==
    /\ pc = "thumb"
    /\ calls' = Append(calls, "thumb")
    /\ thumbnail' = Thumbnail(MaxThumb, MaxThumb, img)
    /\ pc' = "write1"
    /\ UNCHANGED <<data, e, responseMessage, content, contentOpen, img,
                   writeError1, writeError2, storage, streams, replies, logs,
                   outcome>>
    /\ UNCHANGED gvars

\* the bucket after a writeImage call that returned r for path
Stored(r, path) == {o \in storage : o.path # path} \cup r.objects

WriteOrigThenStop ==
    /\ pc = "write1"
    /\ calls' = Append(calls, "write:" \o origPath(e.message.id))
    /\ \E fault \in StorageFaults :
         LET r == writeImage(img, origPath(e.message.id), fault)
         IN  /\ writeError1' = r.err
             /\ streams' = streams \o r.streams
             /\ storage' = Stored(r, origPath(e.message.id))
             /\ pc' = IF r.err = NilError THEN "write2" ELSE "compose"
    /\ UNCHANGED <<data, e, responseMessage, content, contentOpen, img,
                   thumbnail, writeError2, replies, logs, outcome>>
    /\ UNCHANGED gvars

\* lines 131, 135: writeError1 := writeImage(c, img, origPath)
WriteOrig ==
    /\ pc = "write1"
    /\ calls' = Append(calls, "write:" \o origPath(e.message.id))
    /\ \E fault \in StorageFaults :
         LET r == writeImage(img, origPath(e.message.id), fault)
         IN  /\ writeError1' = r.err
             /\ streams' = streams \o r.streams
             /\ storage' = Stored(r, origPath(e.message.id))
    /\ pc' = "write2"
    /\ UNCHANGED <<data, e, responseMessage, content, contentOpen, img,
                   thumbnail, writeError2, replies, logs, outcome>>
    /\ UNCHANGED gvars

\* lines 132, 136: writeError2 := writeImage(c, thumbnail, thumbnailPath)
WriteThumb ==
    /\ pc = "write2"
    /\ calls' = Append(calls, "write:" \o thumbnailPath(e.message.id))
    /\ \E fault \in StorageFaults :
         LET r == writeImage(thumbnail, thumbnailPath(e.message.id), fault)
         IN  /\ writeError2' = r.err
             /\ streams' = streams \o r.streams
             /\ storage' = Stored(r, thumbnailPath(e.message.id))
    /\ pc' = "compose"
    /\ UNCHANGED <<data, e, responseMessage, content, contentOpen, img,
                   thumbnail, writeError1, replies, logs, outcome>>
    /\ UNCHANGED gvars

\* lines 138-146
Compose ==
    /\ pc = "compose"
    /\ responseMessage' = uploadReply(writeError1, writeError2, e.message.id)
    /\ logs' = IF writeError1 = NilError /\ writeError2 = NilError
               THEN logs
               ELSE logs \o <<"Write Error1: " \o writeError1,
                              "Write Error2: " \o writeError2>>
    /\ pc' = "reply"
    /\ UNCHANGED <<data, e, content, contentOpen, img, thumbnail, writeError1,
                   writeError2, storage, streams, replies, calls, outcome>>
    /\ UNCHANGED gvars

\* lines 151-156: bot.ReplyMessage(...).Do(), then the deferred Close
Reply ==
    /\ pc = "reply"
    /\ calls' = Append(calls, "reply")
    /\ replies' = Append(replies, responseMessage)
    /\ \E ok \in BOOLEAN :
         IF ok
         THEN outcome' = "replied" /\ UNCHANGED logs
         ELSE outcome' = "reply failed" /\ logs' = Append(logs, "ReplayMessage")
    /\ contentOpen' = FALSE
    /\ pc' = "done"
    /\ UNCHANGED <<data, e, responseMessage, content, img, thumbnail,
                   writeError1, writeError2, storage, streams>>
    /\ UNCHANGED gvars

Next ==
    \/ ParseTask
    \/ NewBot
    \/ Switch
    \/ Fetch
    \/ Decode
    \/ Gray
    \/ Thumb
    \/ WriteOrig
    \/ WriteThumb
    \/ Compose
    \/ Reply

Spec == Init /\ [][Next]_vars

-----------------------------------------------------------------------------
(* Properties of handleTask *)

IsImageEvent == e # NoEvent /\ e.message.type = "image"

\* the byte stream is not of the format its declared content type names
Malformed(c) ==
    \/ c.ContentType = "image/jpeg" /\ c.fmt # "jpeg"
    \/ c.ContentType = "image/png" /\ c.fmt # "png"

WellFormed(c) ==
    \/ c.ContentType = "image/jpeg" /\ c.fmt = "jpeg"
    \/ c.ContentType = "image/png" /\ c.fmt = "png"

Range(s) == {s[k] : k \in 1..Len(s)}

IsPrefix(s, t) == Len(s) <= Len(t) /\ \A k \in 1..Len(s) : s[k] = t[k]

Abs(n) == IF n < 0 THEN -n ELSE n

ExpectedOrigURL ==
    "https://storage.googleapis.com/" \o bucketName \o "/images/"
        \o e.message.id \o ".jpg"

ExpectedPreviewURL ==
    "https://storage.googleapis.com/" \o bucketName \o "/thumbnails/"
        \o e.message.id \o ".jpg"

\* C1: when decode succeeded and both writeImage calls returned no error, the
\* reply handed to ReplyMessage is the image message whose URLs are
\* base + bucket + "/images/" + id + ".jpg" and base + bucket +
\* "/thumbnails/" + id + ".jpg", the two paths writeImage was called with.
C1_ImageReplyURLs ==
    (IsImageEvent /\ pc \in {"reply", "done"} /\ outcome # "abort"
       /\ outcome # "panic" /\ writeError1 = NilError /\ writeError2 = NilError)
    => /\ responseMessage = ImageMessage(ExpectedOrigURL, ExpectedPreviewURL)
       /\ "write:images/" \o e.message.id \o ".jpg" \in Range(calls)
       /\ "write:thumbnails/" \o e.message.id \o ".jpg" \in Range(calls)
       /\ \A o \in storage :
            o.path \in {"images/" \o e.message.id \o ".jpg",
                        "thumbnails/" \o e.message.id \o ".jpg"}
       /\ (pc = "done" => replies = <<ImageMessage(ExpectedOrigURL,
                                                   ExpectedPreviewURL)>>)

C1_Witness ==
    /\ pc = "done"
    /\ outcome = "replied"
    /\ writeError1 = NilError /\ writeError2 = NilError
    /\ Len(replies) = 1 /\ replies[1].type = "image"
    /\ Cardinality(storage) = 2

\* an upload failed: the bucket does not hold the object at that path after
\* both uploads were attempted
UploadFailed(path) == \A o \in storage : o.path # path

\* C2: for an image event whose decode succeeded, if at least one of the two
\* uploads failed, the handler reaches the reply stage and the reply is the
\* fixed failure text, never an image message.
C2_FailedUploadFailureText ==
    (IsImageEvent /\ pc = "done" /\ "write:" \o thumbnailPath(e.message.id)
                                        \in Range(calls)
       /\ (UploadFailed(origPath(e.message.id))
           \/ UploadFailed(thumbnailPath(e.message.id))))
    => replies = <<TextMessage(FailureText)>>

\* the reply a non-image message must get
ExpectedSimpleReply ==
    IF e.message.type = "text"
    THEN [type |-> "text", text |-> e.message.text, orig |-> "", preview |-> ""]
    ELSE [type |-> "text", text |-> UnsupportedText, orig |-> "", preview |-> ""]

\* C3: for a non-image event nothing of the image pipeline happens (no
\* fetch, no decode, no storage write) and the reply is the received text
\* for a text message, the fixed unsupported-type text for any other kind.
C3_NonImageBypass ==
    (e # NoEvent /\ e.message.type # "image")
    => /\ content = NoContent /\ ~contentOpen
       /\ img = NilImage /\ thumbnail = NilImage
       /\ storage = {} /\ streams = <<>>
       /\ Range(calls) \subseteq {"reply"}
       /\ (pc \in {"reply"} => responseMessage = ExpectedSimpleReply)
       /\ (replies # <<>> => replies = <<ExpectedSimpleReply>>)
       /\ (pc = "done" /\ outcome # "abort" => replies = <<ExpectedSimpleReply>>)

C3_Witness ==
    /\ pc = "done"
    /\ e # NoEvent /\ e.message.type = "text" /\ e.message.text = "hello"
    /\ replies = <<TextMessage("hello")>>

\* the unit of work failed at an early stage
EarlyFailure ==
    \/ data.wire = "empty"
    \/ data.wire = "garbage"
    \/ data.body.wire = "garbage"
    \/ "newLINEBot" \in Range(logs)
    \/ "Load error: fetch" \in Range(logs)
    \/ content # NoContent /\ Malformed(content)

SilentDrop ==
    /\ replies = <<>>
    /\ storage = {}
    /\ streams = <<>>
    /\ \A k \in 1..Len(calls) : calls[k] \in {"fetch", "decode"}

DecodedAndUploadFailed ==
    /\ IsImageEvent
    /\ WellFormed(content)
    /\ writeError1 # NilError \/ writeError2 # NilError

\* C4 as stated: early-stage failures end with no reply and no storage
\* write, and the fixed failure text is replied only where decode succeeded
\* and an upload failed.
C4_SilentDropsOriginal ==
    pc = "done"
    => /\ (EarlyFailure => SilentDrop)
       /\ (TextMessage(FailureText) \in Range(replies) => DecodedAndUploadFailed)

\* C4 as amended: early-stage failures end with no reply and no storage
\* write, and the fixed failure text is replied only where decode succeeded
\* and an upload failed, or where a text message with exactly that text is
\* echoed.
C4_SilentDrops ==
    pc = "done"
    => /\ (EarlyFailure => SilentDrop /\ outcome = "abort")
       /\ (TextMessage(FailureText) \in Range(replies)
             => \/ DecodedAndUploadFailed
                \/ e.message.type = "text" /\ e.message.text = FailureText)

C4_Witness ==
    /\ pc = "done"
    /\ content # NoContent /\ Malformed(content)
    /\ outcome = "abort"
    /\ replies = <<>>

\* C5 as stated: a decode error is propagated to the caller, which aborts
\* the pipeline and sends a user-visible failure reply.
C5_DecodeErrorOriginal ==
    (pc = "done" /\ content # NoContent /\ Malformed(content))
    => /\ outcome = "abort"
       /\ Len(replies) = 1

\* C5 as amended: a decode error is propagated to the caller, which logs it
\* and aborts the pipeline without sending any reply.
C5_DecodeErrorNoReply ==
    (pc = "done" /\ content # NoContent /\ Malformed(content))
    => /\ outcome = "abort"
       /\ "Load error: decode" \in Range(logs)
       /\ calls = <<"fetch", "decode">>
       /\ replies = <<>>

C5_Witness ==
    /\ pc = "done"
    /\ content.ContentType = "image/png" /\ content.fmt = "jpeg"
    /\ "Load error: decode" \in Range(logs)

ThumbnailFits(o) ==
    /\ 1 <= o.w /\ o.w <= 300
    /\ 1 <= o.h /\ o.h <= 300
    /\ Abs(o.w * content.h - o.h * content.w) < Max(content.w, content.h)
    /\ (content.w = 600 /\ content.h = 300 => o.w = 300 /\ o.h = 150)

\* resize.Thumbnail on every image of sides 1..MaxSide
ThumbnailFitsAllSides ==
    \A w \in 1..MaxSide : \A h \in 1..MaxSide :
        LET t == Thumbnail(MaxThumb, MaxThumb,
                           [w |-> w, h |-> h, model |-> "Gray16"])
        IN  /\ 1 <= t.w /\ t.w <= 300
            /\ 1 <= t.h /\ t.h <= 300
            /\ Abs(t.w * h - t.h * w) < Max(w, h)

\* C6: the thumbnail (computed, and written under thumbnails/) has both
\* sides at most 300 and the aspect ratio of the decoded w x h image up to
\* one pixel of rounding (600x300 gives exactly 300x150); the image written
\* under images/ has exactly the sides w x h.
C6_ThumbnailDimensions ==
    /\ ThumbnailFitsAllSides
    /\ thumbnail # NilImage => ThumbnailFits(thumbnail)
    /\ \A o \in storage :
         /\ o.path = "thumbnails/" \o e.message.id \o ".jpg" => ThumbnailFits(o)
         /\ o.path = "images/" \o e.message.id \o ".jpg"
              => o.w = content.w /\ o.h = content.h

C6_Witness ==
    /\ content.w = 600 /\ content.h = 300
    /\ \E o \in storage : o.path = "thumbnails/" \o e.message.id \o ".jpg"
                            /\ o.w = 300 /\ o.h = 150
    /\ \E o \in storage : o.path = "images/" \o e.message.id \o ".jpg"
                            /\ o.w = 600 /\ o.h = 300

ImageStages ==
    <<"fetch", "decode", "gray", "thumb",
      "write:images/" \o e.message.id \o ".jpg",
      "write:thumbnails/" \o e.message.id \o ".jpg", "reply">>

StagesInOrder ==
    IsImageEvent
    => /\ IsPrefix(calls, ImageStages)
       /\ \A k \in 1..Len(streams) : streams[k].closed
       /\ (pc \in {"compose", "reply"} \/ (pc = "done" /\ replies # <<>>)
             => Len(calls) >= 6)
       /\ (pc = "done" /\ replies # <<>> => calls = ImageStages)

ObjectsKept == \A o \in storage : o \in storage'

\* C8: in an image unit of work the stages run in the order fetch, decode,
\* grayscale, thumbnail, upload of the original, upload of the thumbnail,
\* reply, none repeated; the writer of one upload is closed before the next
\* stage; the thumbnail upload is attempted whatever the original upload
\* returned; an object once in the bucket stays as it is.
C8_StageOrder == [](StagesInOrder) /\ [][ObjectsKept]_vars

C8_Witness ==
    /\ pc = "done"
    /\ writeError1 # NilError /\ writeError2 = NilError
    /\ calls = ImageStages
    /\ Cardinality(storage) = 1

\* C9: every unit of work ends either in a logged abort with no reply or in
\* exactly one ReplyMessage attempt, for every message kind and every
\* declared content type.
C9_TwoOutcomes ==
    pc = "done"
    => \/ outcome = "abort" /\ replies = <<>> /\ logs # <<>>
       \/ outcome \in {"replied", "reply failed"} /\ Len(replies) = 1

\* C10: every writer created is closed, and an image reply is sent only if
\* both objects were completely written and finalized in the bucket.
C10_ImageReplyOnlyIfStored ==
    /\ \A k \in 1..Len(streams) : streams[k].closed
    /\ \A k \in 1..Len(replies) :
         replies[k].type = "image"
         => /\ \E o \in storage : o.path = origPath(e.message.id)
            /\ \E o \in storage : o.path = thumbnailPath(e.message.id)

-----------------------------------------------------------------------------
(* convertToGray on pixel grids: an image is a rectangle min..max (max      *)
(* exclusive), a colour model and one 16-bit-per-channel value per point.   *)

ColourModels == {"RGBA64", "Gray", "Gray16"}

\* the pixel values an input grid draws from, by colour model
Palette(model) ==
    CASE model = "RGBA64" -> {<<65535, 0, 0>>, <<4660, 22136, 39612>>}
      [] model = "Gray" -> {<<0>>, <<128>>}
      [] model = "Gray16" -> {<<12345>>, <<65535>>}

Points(min, max) ==
    {<<x, y>> : x \in min[1]..(max[1] - 1), y \in min[2]..(max[2] - 1)}

GridMins == {<<0, 0>>, <<1, 2>>}

Grids ==
    UNION {UNION {{[min |-> mn, max |-> <<mn[1] + sz[1], mn[2] + sz[2]>>,
                    model |-> m, pix |-> f] :
                      f \in [Points(mn, <<mn[1] + sz[1], mn[2] + sz[2]>>)
                               -> Palette(m)]} :
                  mn \in GridMins, sz \in (0..MaxGrid) \X (0..MaxGrid)} :
           m \in ColourModels}

\* Color.RGBA() of a pixel: channels in 0..65535
RGBA(c) ==
    CASE c.kind = "RGBA64" -> c.c
      [] c.kind = "Gray" -> <<c.c[1] * 257, c.c[1] * 257, c.c[1] * 257>>
      [] c.kind = "Gray16" -> <<c.c[1], c.c[1], c.c[1]>>

\* (wr*r + wg*g + wb*b + round) >> 16 for channels below 2^16 and weights
\* whose sum is at most 2^16: the sum stays below 2^32, so uint32 does not
\* wrap; it is computed here in two 8-bit halves to stay within 31 bits
WeightedShift16(wr, wg, wb, round, rgb) ==
    LET hi == wr * (rgb[1] \div 256) + wg * (rgb[2] \div 256)
                + wb * (rgb[3] \div 256)
        lo == wr * (rgb[1] % 256) + wg * (rgb[2] % 256) + wb * (rgb[3] % 256)
                + round
    IN  (hi + (lo \div 256)) \div 256

Gray16ConvertTruncating(c) ==
    [kind |-> "Gray16", c |-> <<WeightedShift16(19595, 38470, 7470, 0, RGBA(c))>>]

\* color.Gray16Model.Convert: a Gray16 colour as it is, any other colour by
\* the luminance weights in uint32 arithmetic
Gray16Convert(c) ==
    IF c.kind = "Gray16" THEN c
    ELSE [kind |-> "Gray16",
          c |-> <<WeightedShift16(19595, 38470, 7471, 32768, RGBA(c))>>]

\* img.At(x, y)
At(g, x, y) == [kind |-> g.model, c |-> g.pix[<<x, y>>]]

\* image.NewGray16(bounds)
NewGray16(min, max) ==
    [min |-> min, max |-> max, model |-> "Gray16",
     pix |-> [p \in Points(min, max) |-> <<0>>]]

\* dest.Set(x, y, c)
Gray16Set(g, x, y, c) ==
    IF <<x, y>> \in Points(g.min, g.max)
    THEN [g EXCEPT !.pix[<<x, y>>] = Gray16Convert(c).c]
    ELSE g

HandlerIdle ==
    /\ pc = "off"
    /\ data = [wire |-> "empty", body |-> [wire |-> "none", event |-> NoEvent]]
    /\ e = NoEvent
    /\ responseMessage = NoResponse
    /\ content = NoContent
    /\ contentOpen = FALSE
    /\ img = NilImage
    /\ thumbnail = NilImage
    /\ writeError1 = NilError
    /\ writeError2 = NilError
    /\ storage = {}
    /\ streams = <<>>
    /\ replies = <<>>
    /\ logs = <<>>
    /\ calls = <<>>
    /\ outcome = "running"

\* a grid g on the heap, about to be passed to convertToGray
InitGray ==
    /\ HandlerIdle
    /\ \E g \in Grids :
         /\ heap = <<g>>
         /\ gin = [addr |-> 1, grid |-> g]
    /\ gpc = "call"
    /\ gsrc = 1
    /\ gdest = 0
    /\ gx = 0
    /\ gy = 0
    /\ gout = <<>>

GrayEnterInPlace ==
    /\ gpc = "call"
    /\ heap' = [heap EXCEPT ![gsrc] = [@ EXCEPT !.model = "Gray16"]]
    /\ gdest' = gsrc
    /\ gy' = heap[gsrc].min[2]
    /\ gx' = heap[gsrc].min[1]
    /\ gpc' = "loop"
    /\ UNCHANGED <<gsrc, gin, gout>>
    /\ UNCHANGED hvars

\* lines 183-185: bounds, dest := image.NewGray16(bounds), y := bounds.Min.Y
GrayEnter ==
    /\ gpc = "call"
    /\ heap' = Append(heap, NewGray16(heap[gsrc].min, heap[gsrc].max))
    /\ gdest' = Len(heap) + 1
    /\ gy' = heap[gsrc].min[2]
    /\ gx' = heap[gsrc].min[1]
    /\ gpc' = "loop"
    /\ UNCHANGED <<gsrc, gin, gout>>
    /\ UNCHANGED hvars

\* lines 186-190: one iteration of the inner loop
GrayPixel ==
    /\ gpc = "loop"
    /\ gy < heap[gsrc].max[2]
    /\ gx < heap[gsrc].max[1]
    /\ heap' = [heap EXCEPT ![gdest] =
                  Gray16Set(@, gx, gy, Gray16Convert(At(heap[gsrc], gx, gy)))]
    /\ gx' = gx + 1
    /\ UNCHANGED <<gpc, gsrc, gdest, gy, gin, gout>>
    /\ UNCHANGED hvars

\* lines 185-186: the inner loop ends, y++, x := bounds.Min.X
GrayNextRow ==
    /\ gpc = "loop"
    /\ gy < heap[gsrc].max[2]
    /\ gx >= heap[gsrc].max[1]
    /\ gy' = gy + 1
    /\ gx' = heap[gsrc].min[1]
    /\ UNCHANGED <<heap, gpc, gsrc, gdest, gin, gout>>
    /\ UNCHANGED hvars

\* line 192: return dest; the caller applies convertToGray once more to
\* what the first call returned
GrayReturn ==
    /\ gpc = "loop"
    /\ gy >= heap[gsrc].max[2]
    /\ gout' = Append(gout, gdest)
    /\ IF gout = <<>>
       THEN gpc' = "call" /\ gsrc' = gdest
       ELSE gpc' = "done" /\ UNCHANGED gsrc
    /\ UNCHANGED <<heap, gdest, gx, gy, gin>>
    /\ UNCHANGED hvars

NextGray ==
    \/ GrayEnter
    \/ GrayPixel
    \/ GrayNextRow
    \/ GrayReturn

SpecGray == InitGray /\ [][NextGray]_vars

\* C7: convertToGray returns a freshly allocated 16-bit grayscale grid with
\* the bounds of its input, leaves its input as it was, and applied to its
\* own result returns a grid equal to that result pixel for pixel.
C7_GrayIdempotent ==
    /\ gin # <<>> => heap[gin.addr] = gin.grid
    /\ gpc = "done"
       => LET once == heap[gout[1]]
              twice == heap[gout[2]]
          IN  /\ gout[1] # gin.addr
              /\ gout[2] # gin.addr /\ gout[2] # gout[1]
              /\ once.model = "Gray16"
              /\ once.min = gin.grid.min /\ once.max = gin.grid.max
              /\ DOMAIN once.pix = Points(gin.grid.min, gin.grid.max)
              /\ \A p \in DOMAIN once.pix :
                   /\ once.pix[p][1] \in 0..65535
                   /\ gin.grid.model = "Gray16" => once.pix[p] = gin.grid.pix[p]
                   /\ gin.grid.model = "Gray"
                        => once.pix[p][1] = 257 * gin.grid.pix[p][1]
              /\ twice = once

C7_Witness ==
    /\ gpc = "done"
    /\ gin.grid.model = "RGBA64"
    /\ gin.grid.min = <<1, 2>> /\ gin.grid.max = <<3, 4>>
    /\ heap[gout[2]] = heap[gout[1]]
    /\ \E p \in DOMAIN gin.grid.pix : heap[gout[1]].pix[p] = <<19595>>

====
